---- MODULE Spec2Model ----
(***************************************************************************)
(* Asynchronous report pipeline: the API's create-then-publish saga, the   *)
(* RabbitMQ main queue / dead-letter queue, the MySQL reports table and    *)
(* the worker's processMessage handler, one step per await point.          *)
(***************************************************************************)
EXTENDS Integers, Sequences, FiniteSets, TLC

\* ------------------------------------------------------------------ bounds
MaxJobs == 1
MaxFaults == 1
MaxDbConnections == 2

\* ------------------------------------------------------- program constants
MAX_RETRIES == 3

\* the default of connectRabbitMQ's and of initializeRabbitMQ's retries
DefaultApiRetries == 5
DefaultWorkerRetries == 10

Workers == {"w1", "w2"}

Ids == 1..MaxJobs
\* report_id of a message whose JSON carries none (or a falsy one)
NoId == 0
\* a well-formed id that uuidv4 never handed out: no row has it
OrphanId == MaxJobs + 1
RowIds == 1..(MaxJobs + 1)

\* SQL NULL of generated_url / failure_reason
NULL == <<>>

\* the row a SELECT does not find
NoRow == [status |-> "absent", retry_count |-> 0,
          generated_url |-> NULL, failure_reason |-> NULL]

\* no message
NoMsg == [src |-> "none", json |-> FALSE, report_id |-> NoId]

VARIABLES
  reports,    \* the reports table: id -> row (NoRow when there is none)
  api,        \* per id, where the API's generateReport callback chain stands
  queue,      \* report_queue, head first
  dlq,        \* report_dlq
  foreign,    \* whether another producer has published its message
  pc,         \* per worker, the await processMessage is suspended at
  channel,    \* per worker, the module-level channel variable
  msg,        \* per worker, the msg argument of the running processMessage
  err,        \* per worker, the error caught at line 192
  rc,         \* per worker, currentRetryCount read at line 197
  decisions,  \* per worker, the channel.ack / channel.nack calls the running
              \* processMessage call has made so far
  discarded,  \* the messages acked at lines 148 / 156
  started,    \* per id, the calls of generateReport made at line 179
  faults,     \* number of failures (of a query, a publish, a connection) so far
  http,       \* the request the API handled last, and its response
  connecting, \* the running call of connectRabbitMQ / initializeRabbitMQ
  db          \* the MySQL connections: the module's db variable, what
              \* config/db exported, and the connections that are lost

vars == <<reports, api, queue, dlq, foreign, pc, channel, msg, err, rc,
          decisions, discarded, started, faults, http, connecting, db>>

\* ------------------------------------------------------------ pure helpers

\* JSON.parse(messageContent), line 145: throws on a body that is not JSON
JSONparse(m) ==
  IF m.json THEN [ok |-> TRUE, report_id |-> m.report_id]
            ELSE [ok |-> FALSE, report_id |-> NoId]

\* !report_id, line 154
MissingId(data) == data.report_id = NoId

\* a work function that returns one URL for every report
ReportUrlOfNoId(id) == <<"http://reports.example.com/", NoId, ".pdf">>

\* generateReport's result, line 130
ReportUrl(id) == <<"http://reports.example.com/", id, ".pdf">>

\* error.message of the error caught at line 192, by its cause: the throw of
\* line 126, a rejected query, a throw of channel.ack / channel.nack
ErrorMessage(cause) ==
  CASE cause = "work" -> "Simulated transient processing error"
    [] cause = "db" -> "query failed"
    [] cause = "channel" -> "Channel closed"
    [] OTHER -> ""

\* a retry decision that is off by one (one retry too many)
ShouldRetryOffByOne(currentRetryCount) == currentRetryCount <= MAX_RETRIES

\* a handler that never retries: every error is a permanent failure
ShouldRetryNever(currentRetryCount) == FALSE

\* a retry decision that gives up one retry early
ShouldRetryOneShort(currentRetryCount) == currentRetryCount + 1 < MAX_RETRIES

\* the retry decision, line 199
ShouldRetry(currentRetryCount) == currentRetryCount < MAX_RETRIES

\* failure_reason written on exhaustion, line 215
FailedAfter(cause) == <<"Failed after MAX_RETRIES retries", cause>>

\* an UPDATE whose SET clause leaves retry_count out
updateReportStatusKeepsCount(tbl, id, fields) ==
  IF tbl[id].status = "absent" THEN tbl
  ELSE [tbl EXCEPT ![id] =
          [f \in DOMAIN tbl[id] |->
             IF f \in DOMAIN fields \ {"retry_count"}
               THEN fields[f] ELSE tbl[id][f]]]

\* UPDATE reports SET ... WHERE id = ?, lines 81-97: no row, no change
updateReportStatus(tbl, id, fields) ==
  IF tbl[id].status = "absent" THEN tbl
  ELSE [tbl EXCEPT ![id] =
          [f \in DOMAIN tbl[id] |->
             IF f \in DOMAIN fields THEN fields[f] ELSE tbl[id][f]]]

\* SELECT * FROM reports WHERE id = ?, lines 102-112
getReport(tbl, id) == tbl[id]

\* the message the broker holds unacknowledged for worker w
Unacked(w) == IF channel[w] = "open" THEN msg[w] ELSE NoMsg

Requeue(q, m) == IF m = NoMsg THEN q ELSE <<m>> \o q

\* --------------------------------------------------- requests and responses

\* the values a JSON request body can give a field; "undefined" is a field
\* the body leaves out
JsValues == {"undefined", "null", "false", "true", "0", "42", "''", "'x'",
             "{}", "{k:1}", "[]"}

\* typeof v
typeof(v) ==
  CASE v = "undefined" -> "undefined"
    [] v \in {"false", "true"} -> "boolean"
    [] v \in {"0", "42"} -> "number"
    [] v \in {"''", "'x'"} -> "string"
    [] OTHER -> "object"

\* whether !v is false
Truthy(v) == v \notin {"undefined", "null", "false", "0", "''"}

\* a || b
Or(a, b) == IF Truthy(a) THEN a ELSE b

\* req.body of POST /api/reports/generate
Bodies == [report_type : JsValues, parameters : JsValues]

NoBody == [report_type |-> "undefined", parameters |-> "undefined"]

ReportTypeMessage == "report_type is required and must be a string"
ParametersMessage == "parameters must be an object"

\* a validation that checks only that report_type is there
InputValidationNoTypeCheck(body) ==
  IF ~Truthy(body.report_type)
    THEN ReportTypeMessage
    ELSE IF Truthy(body.parameters) /\ typeof(body.parameters) # "object"
           THEN ParametersMessage
           ELSE ""

\* the input validation of generateReport, lines 33-44: the message of the
\* 400 it answers, "" when the handler goes on
InputValidation(body) ==
  IF ~Truthy(body.report_type) \/ typeof(body.report_type) # "string"
    THEN ReportTypeMessage
    ELSE IF Truthy(body.parameters) /\ typeof(body.parameters) # "object"
           THEN ParametersMessage
           ELSE ""

\* parameters of request_payload and of messagePayload, lines 47 and 81
MessageParameters(body) == Or(body.parameters, "{}")

\* how the :id of GET /api/reports/:id/status is written: a version 4 uuid
\* in lower or in upper case, a version 1 uuid, a uuid whose variant digit
\* is c, a truncated uuid, a uuid without hyphens
IdForms == {"v4", "V4", "v1", "variant_c", "short", "no_hyphens"}

\* the :id values: each uuid in canonical form (key names the row it is the
\* id of; no row has OrphanId), and the first one in every other form
QueryIds ==
  {[key |-> k, form |-> "v4"] : k \in RowIds}
    \cup {[key |-> 1, form |-> f] : f \in IdForms \ {"v4"}}

NoQueryId == [key |-> NoId, form |-> "short"]

\* a pattern that accepts every uuid version
uuidRegexAnyVersion(id) == id.form \in {"v4", "V4", "v1"}

\* uuidRegex.test(report_id), lines 132-133 (the pattern has the i flag)
uuidRegex(id) == id.form \in {"v4", "V4"}

\* a response body that leaves retry_count out
StatusBodyWithoutCount(id, report) ==
  [report_id |-> id.key, status |-> report.status,
   generated_url |-> report.generated_url,
   failure_reason |-> report.failure_reason,
   retry_count |-> 0]

\* the body of the 200 of lines 157-163
StatusBody(id, report) ==
  [report_id |-> id.key, status |-> report.status,
   generated_url |-> report.generated_url,
   failure_reason |-> report.failure_reason,
   retry_count |-> report.retry_count]

NoReport == StatusBody(NoQueryId, NoRow)

\* no request handled yet
NoHttp == [op |-> "none", at |-> "none", body |-> NoBody, id |-> NoQueryId,
           code |-> 0, message |-> "", parameters |-> "undefined",
           report |-> NoReport]

\* no call of connectRabbitMQ / initializeRabbitMQ yet
NoCall == [fn |-> "none", retries |-> 0, attempt |-> 0, result |-> "none"]

\* ------------------------------------------------------------------- Init
Init ==
  /\ reports = [i \in RowIds |-> NoRow]
  /\ api = [i \in Ids |-> "unused"]
  /\ queue = <<>>
  /\ dlq = <<>>
  /\ foreign = FALSE
  /\ pc = [w \in Workers |-> "stopped"]
  /\ channel = [w \in Workers |-> "none"]
  /\ msg = [w \in Workers |-> NoMsg]
  /\ err = [w \in Workers |-> "none"]
  /\ rc = [w \in Workers |-> 0]
  /\ faults = 0
  /\ decisions = [w \in Workers |-> 0]
  /\ discarded = {}
  /\ started = [i \in RowIds |-> 0]
  /\ http = NoHttp
  /\ connecting = NoCall
  /\ db = [module |-> 1, exported |-> 1, lost |-> {}]

\* the abnormal events so far: the failures, and the other producer's
\* message; MaxFaults bounds them together
Abnormal == faults + (IF foreign THEN 1 ELSE 0)

\* a step that fails (ok = FALSE) is one more abnormal event
Fault(ok) ==
  IF ok THEN faults' = faults
        ELSE Abnormal < MaxFaults /\ faults' = faults + 1

\* ------------------------------------------------------ the API (ingestor)

\* uuidv4(), line 46: an id no earlier request got
FreshId(i) == api[i] = "unused" /\ \A j \in Ids : j < i => api[j] # "unused"

\* an INSERT callback without the return of line 66: it answers 500 and
\* goes on to publish
SubmitInsertIgnoresError(i, dbOk) ==
  /\ FreshId(i)
  /\ IF dbOk
       THEN /\ reports' = [reports EXCEPT ![i] =
                 [status |-> "pending", retry_count |-> 0,
                  generated_url |-> NULL, failure_reason |-> NULL]]
            /\ api' = [api EXCEPT ![i] = "inserted"]
            /\ UNCHANGED queue
       ELSE /\ api' = [api EXCEPT ![i] = "db_error"]
            /\ queue' = Append(queue, [src |-> "api", json |-> TRUE,
                                       report_id |-> i])
            /\ UNCHANGED reports
  /\ UNCHANGED <<dlq, foreign, pc, channel, msg, err, rc, decisions,
                 discarded>>
  /\ Fault(dbOk)
  /\ UNCHANGED <<started, http, connecting, db>>

\* generateReport, lines 46-70: INSERT the pending row; on error answer 500
SubmitInsert(i, dbOk) ==
  /\ FreshId(i)
  /\ IF dbOk
       THEN /\ reports' = [reports EXCEPT ![i] =
                 [status |-> "pending", retry_count |-> 0,
                  generated_url |-> NULL, failure_reason |-> NULL]]
            /\ api' = [api EXCEPT ![i] = "inserted"]
       ELSE /\ api' = [api EXCEPT ![i] = "db_error"]
            /\ UNCHANGED reports
  /\ UNCHANGED <<queue, dlq, foreign, pc, channel, msg, err, rc, decisions,
                 discarded>>
  /\ Fault(dbOk)
  /\ UNCHANGED <<started, http, connecting, db>>

\* a payload built without report_id
JobMessageWithoutId(i) == [src |-> "api", json |-> TRUE, report_id |-> NoId]

\* the message of lines 78-90
JobMessage(i) == [src |-> "api", json |-> TRUE, report_id |-> i]

\* a publish that throws after the broker took the message: the rollback is
\* issued although the message is out
SubmitPublishThenRollback(i, pubOk) ==
  /\ api[i] = "inserted"
  /\ queue' = Append(queue, [src |-> "api", json |-> TRUE, report_id |-> i])
  /\ api' = [api EXCEPT ![i] = IF pubOk THEN "accepted" ELSE "rollback"]
  /\ UNCHANGED <<reports, dlq, foreign, pc, channel, msg, err, rc, decisions,
                 discarded>>
  /\ Fault(pubOk)
  /\ UNCHANGED <<started, http, connecting, db>>

\* the INSERT callback, lines 72-112: publish and answer 202, or (getChannel
\* or publish threw) issue the rollback DELETE and answer 500
SubmitPublish(i, pubOk) ==
  /\ api[i] = "inserted"
  /\ IF pubOk
       THEN /\ queue' = Append(queue, JobMessage(i))
            /\ api' = [api EXCEPT ![i] = "accepted"]
       ELSE /\ api' = [api EXCEPT ![i] = "rollback"]
            /\ UNCHANGED queue
  /\ UNCHANGED <<reports, dlq, foreign, pc, channel, msg, err, rc, decisions,
                 discarded>>
  /\ Fault(pubOk)
  /\ UNCHANGED <<started, http, connecting, db>>

\* a publish failure that answers 500 and leaves the row where it is
RollbackDeleteKeepsRow(i, dbOk) ==
  /\ api[i] = "rollback"
  /\ api' = [api EXCEPT ![i] = "queue_error"]
  /\ UNCHANGED <<reports, queue, dlq, foreign, pc, channel, msg, err, rc,
                 decisions, discarded>>
  /\ Fault(dbOk)
  /\ UNCHANGED <<started, http, connecting, db>>

\* the rollback DELETE reaching the database, lines 103-107
RollbackDelete(i, dbOk) ==
  /\ api[i] = "rollback"
  /\ api' = [api EXCEPT ![i] = "queue_error"]
  /\ reports' = IF dbOk THEN [reports EXCEPT ![i] = NoRow] ELSE reports
  /\ UNCHANGED <<queue, dlq, foreign, pc, channel, msg, err, rc, decisions,
                 discarded>>
  /\ Fault(dbOk)
  /\ UNCHANGED <<started, http, connecting, db>>

\* another producer publishes one message to report_exchange: a body that
\* is not JSON, JSON without report_id, or JSON naming an id that has no row
Inject(json, rid) ==
  /\ ~foreign
  /\ Abnormal < MaxFaults
  /\ foreign' = TRUE
  /\ queue' = Append(queue, [src |-> "foreign", json |-> json,
                             report_id |-> IF json THEN rid ELSE NoId])
  /\ UNCHANGED <<reports, api, dlq, pc, channel, msg, err, rc, decisions,
                 discarded>>
  /\ UNCHANGED faults
  /\ UNCHANGED <<started, http, connecting, db>>


\* everything but http
pipeline == <<reports, api, queue, dlq, foreign, pc, channel, msg, err, rc,
              decisions, discarded, started, faults, connecting, db>>

\* POST /api/reports/generate arrives with req.body = body
ReceiveGenerate(body) ==
  /\ http.op = "none"
  /\ http' = [NoHttp EXCEPT !.op = "generate", !.at = "received",
                            !.body = body]
  /\ UNCHANGED pipeline

\* generateReport up to the INSERT, lines 31-47: the 400 of line 35 or 41,
\* or the handler goes on to SubmitInsert and SubmitPublish with the
\* parameters the message will carry
ValidateGenerate ==
  /\ http.op = "generate"
  /\ http.at = "received"
  /\ LET message == InputValidation(http.body)
     IN http' = IF message # ""
                  THEN [http EXCEPT !.at = "answered", !.code = 400,
                                    !.message = message]
                  ELSE [http EXCEPT !.at = "insert",
                          !.parameters = MessageParameters(http.body)]
  /\ UNCHANGED pipeline

\* getReportStatus, lines 127-164, with the SELECT answering or failing
GetReportStatus(id, dbOk) ==
  /\ http' =
       IF ~uuidRegex(id)
         THEN [NoHttp EXCEPT !.op = "status", !.at = "answered", !.id = id,
                 !.code = 400, !.message = "Invalid report_id format"]
       ELSE IF ~dbOk
         THEN [NoHttp EXCEPT !.op = "status", !.at = "answered", !.id = id,
                 !.code = 500, !.message = "Database error"]
       ELSE IF getReport(reports, id.key).status = "absent"
         THEN [NoHttp EXCEPT !.op = "status", !.at = "answered", !.id = id,
                 !.code = 404, !.message = "Report not found"]
       ELSE [NoHttp EXCEPT !.op = "status", !.at = "answered", !.id = id,
               !.code = 200,
               !.report = StatusBody(id, getReport(reports, id.key))]
  /\ UNCHANGED <<reports, api, queue, dlq, foreign, pc, channel, msg, err, rc,
                 decisions, discarded, started, connecting, db>>
  /\ Fault(dbOk \/ ~uuidRegex(id))

\* ------------------------------------------------------------- the broker

\* a broker that loses the message of a requeueing nack
QueueAfterDropsRequeue(q, op, m) == q

\* a broker (or a handler) that treats an ack as a requeueing nack
QueueAfterRequeuesAcked(q, op, m) ==
  IF op \in {"nack_requeue", "ack"} THEN <<m>> \o q ELSE q

\* report_queue after the decision op on a delivery of m, q being the rest
\* of the queue: a requeued message goes back to the head
QueueAfter(q, op, m) == IF op = "nack_requeue" THEN <<m>> \o q ELSE q

\* a broker that dead-letters every nack, requeued or not
DlqAfterTakesRequeued(d, op, m) ==
  IF op \in {"nack_reject", "nack_requeue"} THEN Append(d, m) ELSE d

\* a queue declared without x-dead-letter-exchange: a rejected message is
\* dropped
DlqAfterDropsRejected(d, op, m) == d

\* report_dlq after it: a rejected message is dead-lettered through
\* x-dead-letter-exchange / x-dead-letter-routing-key, lines 38-45
DlqAfter(d, op, m) == IF op = "nack_reject" THEN Append(d, m) ELSE d

\* the worker's connection closed after this channel delivered msg: until the
\* timer of line 60 has run initializeRabbitMQ, channel is the closed channel
\* and channel.ack / channel.nack throw; afterwards it is a new channel
Lost(w) == channel[w] = "lost"

\* processMessage returns
Return(w) ==
  /\ pc' = [pc EXCEPT ![w] = "idle"]
  /\ decisions' = [decisions EXCEPT ![w] = 0]
  /\ msg' = [msg EXCEPT ![w] = NoMsg]
  /\ err' = [err EXCEPT ![w] = "none"]
  /\ rc' = [rc EXCEPT ![w] = 0]

\* channel.ack(msg) / channel.nack(msg, false, requeue) as the last statement
\* of processMessage, not throwing: on the delivering channel the broker
\* settles the delivery; on a re-created channel it does not know the tag
Settle(w, op) ==
  /\ queue' = IF Lost(w) THEN queue ELSE QueueAfter(queue, op, msg[w])
  /\ dlq' = IF Lost(w) THEN dlq ELSE DlqAfter(dlq, op, msg[w])
  /\ Return(w)
  /\ UNCHANGED channel

\* the nack of line 226 throws out of processMessage: the unhandled
\* rejection ends the worker process
Rejected(w) ==
  /\ Lost(w)
  /\ decisions' = [decisions EXCEPT ![w] = 0]
  /\ pc' = [pc EXCEPT ![w] = "crashed"]
  /\ channel' = [channel EXCEPT ![w] = "none"]
  /\ msg' = [msg EXCEPT ![w] = NoMsg]
  /\ err' = [err EXCEPT ![w] = "none"]
  /\ rc' = [rc EXCEPT ![w] = 0]
  /\ UNCHANGED <<queue, dlq>>

\* control passes to the catch block of line 192 with the error's cause
Catch(w, cause) ==
  /\ pc' = [pc EXCEPT ![w] = "get2"]
  /\ err' = [err EXCEPT ![w] = cause]
  /\ decisions' = [decisions EXCEPT ![w] =
                     IF cause = "channel" THEN @ + 1 ELSE @]
  /\ UNCHANGED <<queue, dlq, channel, msg, rc>>

\* channel.ack(msg) of line 168 / 190 throws inside the try block
AckThrows(w) == Lost(w) /\ Catch(w, "channel")

\* an inner catch that rejects the message instead of requeueing it
InnerCatchRejects(w) == Settle(w, "nack_reject") \/ Rejected(w)

\* an inner catch that acks: the message is dropped
InnerCatchAcks(w) == Settle(w, "ack") \/ Rejected(w)

\* the inner catch of lines 223-227: nack with requeue
InnerCatch(w) == Settle(w, "nack_requeue") \/ Rejected(w)

\* ------------------------------------------------------------- the worker

\* a handler that sends an unusable message back to the queue
MalformedRequeued == "nack_requeue"

\* what lines 146-158 do with a message they cannot use
MalformedDecision == "ack"

\* a handler that sends the message of an unknown report back to the queue
NotFoundRequeued == "nack_requeue"

\* what lines 166-170 do with a message whose report has no row
NotFoundDecision == "ack"

\* startWorker, lines 234-249: connect, declare the topology, consume
StartWorker(w) ==
  /\ pc[w] = "stopped"
  /\ pc' = [pc EXCEPT ![w] = "idle"]
  /\ channel' = [channel EXCEPT ![w] = "open"]
  /\ UNCHANGED <<reports, api, queue, dlq, foreign, msg, err, rc, decisions,
                 discarded>>
  /\ UNCHANGED faults
  /\ UNCHANGED <<started, http, connecting, db>>

\* the broker hands the head of report_queue to consumer w (prefetch 1,
\* line 27) and processMessage runs to its first await, lines 138-164
Deliver(w) ==
  /\ pc[w] = "idle"
  /\ channel[w] = "open"
  /\ queue # <<>>
  /\ LET m == Head(queue)
         data == JSONparse(m)
     IN IF ~data.ok \/ MissingId(data)
          THEN /\ queue' = QueueAfter(Tail(queue), MalformedDecision, m)
               /\ dlq' = DlqAfter(dlq, MalformedDecision, m)
               /\ discarded' = discarded \cup {m}
               /\ UNCHANGED <<pc, msg, decisions>>
          ELSE /\ queue' = Tail(queue)
               /\ msg' = [msg EXCEPT ![w] = m]
               /\ pc' = [pc EXCEPT ![w] = "get1"]
               /\ UNCHANGED <<dlq, discarded, decisions>>
  /\ UNCHANGED <<reports, api, foreign, channel, err, rc>>
  /\ UNCHANGED faults
  /\ UNCHANGED <<started, http, connecting, db>>

\* await getReport(report_id), lines 164-172
GetReport1(w, dbOk) ==
  /\ pc[w] = "get1"
  /\ LET report == getReport(reports, msg[w].report_id)
     IN IF ~dbOk
          THEN Catch(w, "db")
          ELSE IF report.status = "absent"
                 THEN \/ Settle(w, NotFoundDecision)
                      \/ AckThrows(w)
                 ELSE /\ pc' = [pc EXCEPT ![w] = "setProcessing"]
                      /\ UNCHANGED <<queue, dlq, channel, msg, err, rc, decisions>>
  /\ UNCHANGED <<reports, api, foreign, discarded>>
  /\ Fault(dbOk)
  /\ UNCHANGED <<started, http, connecting, db>>

\* await updateReportStatus(report_id, 'processing'), line 175, after which
\* generateReport is called, line 179
SetProcessing(w, dbOk) ==
  /\ pc[w] = "setProcessing"
  /\ IF dbOk
       THEN /\ reports' = updateReportStatus(reports, msg[w].report_id,
                                             [status |-> "processing"])
            /\ pc' = [pc EXCEPT ![w] = "generate"]
            /\ started' = [started EXCEPT ![msg[w].report_id] = @ + 1]
            /\ UNCHANGED <<queue, dlq, channel, msg, err, rc, decisions>>
       ELSE /\ Catch(w, "db")
            /\ UNCHANGED <<reports, started>>
  /\ UNCHANGED <<api, foreign, discarded>>
  /\ Fault(dbOk)
  /\ UNCHANGED <<http, connecting, db>>

\* await generateReport(...), lines 117-133 and 179
Generate(w, ok) ==
  /\ pc[w] = "generate"
  /\ IF ok
       THEN /\ pc' = [pc EXCEPT ![w] = "setCompleted"]
            /\ UNCHANGED <<queue, dlq, channel, msg, err, rc, decisions>>
       ELSE Catch(w, "work")
  /\ UNCHANGED <<reports, api, foreign, discarded>>
  /\ UNCHANGED faults
  /\ UNCHANGED <<started, http, connecting, db>>

\* a handler that acks without waiting for the UPDATE: the ack goes out
\* whether or not the write succeeds
SetCompletedAcksFirst(w, dbOk) ==
  /\ pc[w] = "setCompleted"
  /\ reports' = IF dbOk
                  THEN updateReportStatus(reports, msg[w].report_id,
                         [status |-> "completed",
                          generated_url |-> ReportUrl(msg[w].report_id)])
                  ELSE reports
  /\ Settle(w, "ack")
  /\ UNCHANGED <<api, foreign, discarded>>
  /\ Fault(dbOk)
  /\ UNCHANGED <<started, http, connecting, db>>

\* await updateReportStatus(report_id, 'completed', ...) and the ack,
\* lines 182-190
SetCompleted(w, dbOk) ==
  /\ pc[w] = "setCompleted"
  /\ IF dbOk
       THEN /\ reports' = updateReportStatus(reports, msg[w].report_id,
                            [status |-> "completed",
                             generated_url |-> ReportUrl(msg[w].report_id)])
            /\ \/ Settle(w, "ack")
               \/ AckThrows(w)
       ELSE /\ Catch(w, "db")
            /\ UNCHANGED reports
  /\ UNCHANGED <<api, foreign, discarded>>
  /\ Fault(dbOk)
  /\ UNCHANGED <<started, http, connecting, db>>

\* await getReport(report_id) in the catch block, lines 195-199 and 212
GetReport2(w, dbOk) ==
  /\ pc[w] = "get2"
  /\ LET report == getReport(reports, msg[w].report_id)
     IN IF ~dbOk \/ report.status = "absent"
          THEN \* the query failed, or report.retry_count of undefined
               InnerCatch(w)
          ELSE /\ rc' = [rc EXCEPT ![w] = report.retry_count]
               /\ pc' = [pc EXCEPT ![w] =
                    IF ShouldRetry(report.retry_count)
                      THEN "setPending" ELSE "setFailed"]
               /\ UNCHANGED <<queue, dlq, channel, msg, err, decisions>>
  /\ UNCHANGED <<reports, api, foreign, discarded>>
  /\ Fault(dbOk)
  /\ UNCHANGED <<started, http, connecting, db>>

\* the retry branch, lines 200-210
SetPending(w, dbOk) ==
  /\ pc[w] = "setPending"
  /\ IF dbOk
       THEN /\ reports' = updateReportStatus(reports, msg[w].report_id,
                            [status |-> "pending", retry_count |-> rc[w] + 1,
                             failure_reason |-> <<err[w]>>])
            /\ (Settle(w, "nack_requeue") \/ Rejected(w))
       ELSE /\ InnerCatch(w)
            /\ UNCHANGED reports
  /\ UNCHANGED <<api, foreign, discarded>>
  /\ Fault(dbOk)
  /\ UNCHANGED <<started, http, connecting, db>>

\* the exhausted branch, lines 212-221
SetFailed(w, dbOk) ==
  /\ pc[w] = "setFailed"
  /\ IF dbOk
       THEN /\ reports' = updateReportStatus(reports, msg[w].report_id,
                            [status |-> "failed",
                             failure_reason |-> FailedAfter(err[w])])
            /\ (Settle(w, "nack_reject") \/ Rejected(w))
       ELSE /\ InnerCatch(w)
            /\ UNCHANGED reports
  /\ UNCHANGED <<api, foreign, discarded>>
  /\ Fault(dbOk)
  /\ UNCHANGED <<started, http, connecting, db>>

\* ------------------------------------------------------ connection events

\* the 'close' event of the worker's connection, lines 58-61: the broker
\* requeues what the consumer held unacknowledged; processMessage goes on,
\* and the channel initializeRabbitMQ creates later has no consumer
ConnectionClose(w) ==
  /\ channel[w] = "open"
  /\ queue' = Requeue(queue, Unacked(w))
  /\ channel' = [channel EXCEPT ![w] = "lost"]
  /\ UNCHANGED <<reports, api, dlq, foreign, pc, msg, err, rc, decisions,
                 discarded>>
  /\ Fault(FALSE)
  /\ UNCHANGED <<started, http, connecting, db>>

\* ------------------------------------------------------------------- Next
Next ==
  \/ \E i \in Ids, dbOk \in BOOLEAN : SubmitInsert(i, dbOk)
  \/ \E i \in Ids, pubOk \in BOOLEAN : SubmitPublish(i, pubOk)
  \/ \E i \in Ids, dbOk \in BOOLEAN : RollbackDelete(i, dbOk)
  \/ \E json \in BOOLEAN, rid \in {NoId, OrphanId} : Inject(json, rid)
  \/ \E w \in Workers : StartWorker(w)
  \/ \E w \in Workers : Deliver(w)
  \/ \E w \in Workers, dbOk \in BOOLEAN : GetReport1(w, dbOk)
  \/ \E w \in Workers, dbOk \in BOOLEAN : SetProcessing(w, dbOk)
  \/ \E w \in Workers, ok \in BOOLEAN : Generate(w, ok)
  \/ \E w \in Workers, dbOk \in BOOLEAN : SetCompleted(w, dbOk)
  \/ \E w \in Workers, dbOk \in BOOLEAN : GetReport2(w, dbOk)
  \/ \E w \in Workers, dbOk \in BOOLEAN : SetPending(w, dbOk)
  \/ \E w \in Workers, dbOk \in BOOLEAN : SetFailed(w, dbOk)
  \/ \E w \in Workers : ConnectionClose(w)

Spec == Init /\ [][Next]_vars

\* ------------------------------------------------- availability, fairness

\* a step of worker w with the status store answering
WorkerRun(w) ==
  \/ StartWorker(w)
  \/ Deliver(w)
  \/ GetReport1(w, TRUE)
  \/ SetProcessing(w, TRUE)
  \/ \E ok \in BOOLEAN : Generate(w, ok)
  \/ SetCompleted(w, TRUE)
  \/ GetReport2(w, TRUE)
  \/ SetPending(w, TRUE)
  \/ SetFailed(w, TRUE)

\* the broker and the status store stay available (no publish, query or
\* connection fails), and the workers keep running
LiveNext ==
  \/ \E i \in Ids : SubmitInsert(i, TRUE)
  \/ \E i \in Ids : SubmitPublish(i, TRUE)
  \/ \E json \in BOOLEAN, rid \in {NoId, OrphanId} : Inject(json, rid)
  \/ \E w \in Workers : WorkerRun(w)

LiveSpec ==
  /\ Init
  /\ [][LiveNext]_vars
  /\ \A w \in Workers : WF_vars(WorkerRun(w))

\* a step of worker w with the status store answering and generateReport
\* throwing on every call (the branch of line 126)
WorkerFails(w) ==
  \/ StartWorker(w)
  \/ Deliver(w)
  \/ GetReport1(w, TRUE)
  \/ SetProcessing(w, TRUE)
  \/ Generate(w, FALSE)
  \/ GetReport2(w, TRUE)
  \/ SetPending(w, TRUE)
  \/ SetFailed(w, TRUE)

\* as LiveNext, with a work function that always fails
ExhaustNext ==
  \/ \E i \in Ids : SubmitInsert(i, TRUE)
  \/ \E i \in Ids : SubmitPublish(i, TRUE)
  \/ \E json \in BOOLEAN, rid \in {NoId, OrphanId} : Inject(json, rid)
  \/ \E w \in Workers : WorkerFails(w)

ExhaustSpec ==
  /\ Init
  /\ [][ExhaustNext]_vars
  /\ \A w \in Workers : WF_vars(WorkerFails(w))

\* ------------------------------------------------------ connecting, MySQL

\* a retry loop that goes on to another attempt after the last one failed
NextAttemptNoLimit(c, ok) ==
  IF ok THEN [c EXCEPT !.result = "resolved"]
        ELSE [c EXCEPT !.attempt = @ + 1]

\* one pass of the loop body of connectRabbitMQ / initializeRabbitMQ, with
\* the attempt (connect, createChannel, the declarations) succeeding or
\* throwing: return, or wait and go round again, or throw the error
NextAttempt(c, ok) ==
  IF ok THEN [c EXCEPT !.result = "resolved"]
  ELSE IF c.attempt < c.retries THEN [c EXCEPT !.attempt = @ + 1]
  ELSE [c EXCEPT !.result = "rejected"]

\* connectRabbitMQ(retries) or initializeRabbitMQ(retries) is called, and
\* enters its loop with attempt = 1
CallConnect(fn, retries) ==
  /\ connecting.fn = "none"
  /\ connecting' = [fn |-> fn, retries |-> retries, attempt |-> 1,
                    result |-> "running"]
  /\ UNCHANGED <<reports, api, queue, dlq, foreign, pc, channel, msg, err, rc,
                 decisions, discarded, started, faults, http, db>>

\* the attempt of the running call ends
ConnectAttempt(ok) ==
  /\ connecting.result = "running"
  /\ connecting' = NextAttempt(connecting, ok)
  /\ UNCHANGED <<reports, api, queue, dlq, foreign, pc, channel, msg, err, rc,
                 decisions, discarded, started, faults, http, db>>

\* the calls with every retries argument up to the larger default
ConnectNext ==
  \/ \E fn \in {"connectRabbitMQ", "initializeRabbitMQ"},
        retries \in 1..DefaultWorkerRetries : CallConnect(fn, retries)
  \/ \E ok \in BOOLEAN : ConnectAttempt(ok)

\* every attempt ends, by connecting or by throwing
ConnectSpec ==
  /\ Init
  /\ [][ConnectNext]_vars
  /\ WF_vars(\E ok \in BOOLEAN : ConnectAttempt(ok))

\* the 'error' event of the connection in the module's db variable, with
\* PROTOCOL_CONNECTION_LOST or a fatal error, config/db lines 24-29:
\* createConnection assigns a new connection to db; module.exports (line
\* 35) keeps the connection it was given when the module was loaded
DbConnectionLost ==
  /\ db.module < MaxDbConnections
  /\ db' = [db EXCEPT !.module = @ + 1, !.lost = @ \cup {db.module}]
  /\ UNCHANGED <<reports, api, queue, dlq, foreign, pc, channel, msg, err, rc,
                 decisions, discarded, started, faults, http, connecting>>

\* db.query of the API and of the worker, both on require('../config/db'):
\* it answers unless that connection is lost
DbUp == db.exported \notin db.lost

\* ingestion and processing with queries that fail once their connection is
\* lost
DbNext ==
  \/ \E i \in Ids : SubmitInsert(i, DbUp)
  \/ \E i \in Ids : SubmitPublish(i, TRUE)
  \/ \E w \in Workers : StartWorker(w)
  \/ \E w \in Workers : Deliver(w)
  \/ \E w \in Workers : GetReport1(w, DbUp)
  \/ \E w \in Workers : SetProcessing(w, DbUp)
  \/ \E w \in Workers, ok \in BOOLEAN : Generate(w, ok)
  \/ \E w \in Workers : SetCompleted(w, DbUp)
  \/ \E w \in Workers : GetReport2(w, DbUp)
  \/ \E w \in Workers : SetPending(w, DbUp)
  \/ \E w \in Workers : SetFailed(w, DbUp)
  \/ DbConnectionLost

DbSpec == Init /\ [][DbNext]_vars

\* ------------------------------------------------ the API's request checks

\* requests to generateReport with every body, up to the INSERT; a request
\* it rejects changes nothing, so Next leaves these steps out
ValidationNext ==
  \/ \E body \in Bodies : ReceiveGenerate(body)
  \/ ValidateGenerate

ValidationSpec == Init /\ [][ValidationNext]_vars

\* status requests at any point of ingestion and processing, with a publish
\* or a SELECT that may fail
QueryNext ==
  \/ \E i \in Ids : SubmitInsert(i, TRUE)
  \/ \E i \in Ids, pubOk \in BOOLEAN : SubmitPublish(i, pubOk)
  \/ \E i \in Ids : RollbackDelete(i, TRUE)
  \/ \E w \in Workers : WorkerRun(w)
  \/ \E id \in QueryIds, dbOk \in BOOLEAN : GetReportStatus(id, dbOk)

QuerySpec == Init /\ [][QueryNext]_vars

\* as LiveNext, with connections that may close
LossNext ==
  \/ LiveNext
  \/ \E w \in Workers : ConnectionClose(w)

LossSpec ==
  /\ Init
  /\ [][LossNext]_vars
  /\ \A w \in Workers : WF_vars(WorkerRun(w))

\* ----------------------------------------------------------------- claims

Terminal(r) == r.status \in {"completed", "failed"}

Running == {"get1", "setProcessing", "generate", "setCompleted", "get2",
            "setPending", "setFailed"}

In(q, m) == \E k \in 1..Len(q) : q[k] = m
InQueue(m) == In(queue, m)
InDlq(m) == In(dlq, m)
WellFormed(m) == JSONparse(m).ok /\ ~MissingId(JSONparse(m))

\* C1: every accepted submission (row written, message published) leads to
\* a row with status completed or failed, while the broker, the status store
\* and a worker stay available
C1_AcceptedLeadsToTerminal ==
  \A i \in Ids : (api[i] = "accepted") ~> Terminal(reports[i])

\* C1 witness: an accepted job that went through every retry and failed
C1_Witness ==
  \E i \in Ids : /\ api[i] = "accepted"
                 /\ reports[i].status = "failed"
                 /\ reports[i].retry_count = MAX_RETRIES

\* C2: once a row is completed or failed, no step changes its status
C2_TerminalStatusIsFinal ==
  [][\A i \in Ids : Terminal(reports[i]) =>
        reports'[i].status = reports[i].status]_vars

\* C3: a processMessage call that finds its row completed or failed at line
\* 164 acks and returns there: the row is left as it was, the work function
\* is not reached, the message is gone from the broker
C3_TerminalDeliveryIsNoOp ==
  [][\A w \in Workers :
        ( /\ pc[w] = "get1"
          /\ pc'[w] # "get1"
          /\ faults' = faults
          /\ Terminal(reports[msg[w].report_id]) )
        => ( /\ pc'[w] = "idle"
             /\ reports' = reports
             /\ ~In(queue', msg[w]) /\ ~In(dlq', msg[w]) )]_vars

\* C4: every row's retry_count is at most MAX_RETRIES
C4_RetryCountBounded ==
  \A i \in Ids : reports[i].retry_count <= MAX_RETRIES

\* C4 witness: a row at the bound after a failure was injected
C4_Witness ==
  \E i \in Ids : reports[i].retry_count = MAX_RETRIES /\ faults > 0

\* C5: no step lowers a row's retry_count
C5_RetryCountNeverDecreases ==
  [][\A i \in Ids :
        (reports[i].status # "absent" /\ reports'[i].status # "absent")
        => reports'[i].retry_count >= reports[i].retry_count]_vars

\* C6: a row has generated_url set exactly when its status is completed
C6_UrlIffCompleted ==
  \A i \in Ids :
    (reports[i].generated_url # NULL) <=> (reports[i].status = "completed")

\* C7: a completed row has generated_url set and failure_reason unset
C7_CompletedHasUrlAndNoReason ==
  \A i \in Ids :
    reports[i].status = "completed" =>
      reports[i].generated_url # NULL /\ reports[i].failure_reason = NULL

\* C8: a failed row has failure_reason set and generated_url unset
C8_FailedHasReasonAndNoUrl ==
  \A i \in Ids :
    reports[i].status = "failed" =>
      reports[i].failure_reason # NULL /\ reports[i].generated_url = NULL

\* C9: a processMessage call makes exactly one ack / nack call: when it ends
\* it returns from that call, having made none before
C9_ExactlyOneDecision ==
  [][\A w \in Workers :
        (pc[w] \in Running /\ pc'[w] \notin Running)
        => (decisions[w] = 0 /\ pc'[w] = "idle")]_vars

RowOf(w) == reports[msg[w].report_id]

\* C11: a well-formed delivery whose report_id has no row is acked and
\* discarded: the handler holding it never gets past its getReport calls, no
\* row is written and generateReport is not called; when getReport of line
\* 164 answers, the handler acks and returns, and the message is neither in
\* report_queue nor in report_dlq afterwards
C11_UnknownReportAckedAndDiscarded ==
  /\ [](\A w \in Workers :
          (msg[w] # NoMsg /\ RowOf(w).status = "absent")
          => pc[w] \in {"get1", "get2"})
  /\ [](reports[OrphanId] = NoRow /\ started[OrphanId] = 0)
  /\ [][\A w \in Workers :
          ( /\ pc[w] = "get1" /\ pc'[w] # "get1"
            /\ faults' = faults
            /\ RowOf(w).status = "absent" )
          => ( /\ reports' = reports
               /\ started' = started
               /\ channel[w] = "open"
                    => ( /\ pc'[w] = "idle"
                         /\ ~In(queue', msg[w])
                         /\ ~In(dlq', msg[w]) ) )]_vars

\* C11 witness: the other producer's message was well-formed (nothing was
\* discarded as malformed), and without any failure it is gone from the
\* broker and from every handler
C11_Witness ==
  /\ foreign /\ discarded = {} /\ faults = 0
  /\ queue = <<>> /\ dlq = <<>>
  /\ \A w \in Workers : msg[w] = NoMsg

\* C12: a handler whose generateReport call threw and that reads a
\* retry_count below MAX_RETRIES at line 197 takes the retry branch; its
\* write sets status pending, retry_count to the value read plus one and
\* failure_reason to the cause; its nack on the delivering channel puts the
\* message back in report_queue and not in report_dlq
C12_WorkFailureRetried ==
  [][\A w \in Workers :
        /\ ( /\ pc[w] = "get2" /\ pc'[w] # "get2"
             /\ err[w] = "work" /\ faults' = faults
             /\ RowOf(w).retry_count < MAX_RETRIES )
           => ( /\ pc'[w] = "setPending"
                /\ rc'[w] = RowOf(w).retry_count
                /\ reports' = reports )
        /\ ( /\ pc[w] = "setPending" /\ pc'[w] # "setPending"
             /\ err[w] = "work" /\ faults' = faults )
           => ( /\ reports'[msg[w].report_id] =
                     [RowOf(w) EXCEPT !.status = "pending",
                                      !.retry_count = rc[w] + 1,
                                      !.failure_reason = <<"work">>]
                /\ channel[w] = "open"
                     => ( /\ pc'[w] = "idle"
                          /\ In(queue', msg[w])
                          /\ ~In(dlq', msg[w]) ) )]_vars

\* C12 witness: a job back in report_queue after its first work failure
C12_Witness ==
  \E i \in Ids :
    /\ reports[i].status = "pending" /\ reports[i].retry_count = 1
    /\ reports[i].failure_reason = <<"work">>
    /\ InQueue(JobMessage(i)) /\ ~InDlq(JobMessage(i))

\* C13: a handler whose generateReport call threw and that reads a
\* retry_count of MAX_RETRIES or more at line 197 takes the exhausted
\* branch; its write sets status failed and a failure_reason naming the
\* cause and leaves retry_count alone; its nack on the delivering channel
\* moves the message to report_dlq, and a message in report_dlq is never
\* again in report_queue or delivered to a consumer
C13_WorkFailureExhausted ==
  /\ [][\A w \in Workers :
          /\ ( /\ pc[w] = "get2" /\ pc'[w] # "get2"
               /\ err[w] = "work" /\ faults' = faults
               /\ RowOf(w).retry_count >= MAX_RETRIES )
             => ( /\ pc'[w] = "setFailed"
                  /\ reports' = reports )
          /\ ( /\ pc[w] = "setFailed" /\ pc'[w] # "setFailed"
               /\ err[w] = "work" /\ faults' = faults )
             => ( /\ reports'[msg[w].report_id] =
                       [RowOf(w) EXCEPT !.status = "failed",
                                        !.failure_reason = FailedAfter("work")]
                  /\ channel[w] = "open"
                       => ( /\ pc'[w] = "idle"
                            /\ In(dlq', msg[w])
                            /\ ~In(queue', msg[w]) ) )]_vars
  /\ [](\A k \in 1..Len(dlq) :
          /\ ~InQueue(dlq[k])
          /\ \A w \in Workers : channel[w] = "open" => msg[w] # dlq[k])
  /\ [][\A k \in 1..Len(dlq) : In(dlq', dlq[k])]_vars

\* C13 witness: a job failed after MAX_RETRIES retries, its message
\* dead-lettered
C13_Witness ==
  \E i \in Ids :
    /\ reports[i].status = "failed"
    /\ reports[i].retry_count = MAX_RETRIES
    /\ reports[i].failure_reason = FailedAfter("work")
    /\ InDlq(JobMessage(i))

\* C14: with generateReport throwing on every call and the store answering,
\* a row only moves pending -> processing (retry_count kept), processing ->
\* pending (retry_count one higher, up to MAX_RETRIES) and, at retry_count
\* MAX_RETRIES, processing -> failed; every accepted job ends failed with
\* retry_count MAX_RETRIES after MAX_RETRIES + 1 calls, its message in
\* report_dlq
C14_AlwaysFailingJobExhausts ==
  /\ [][\A i \in Ids :
          LET old == reports[i]
              new == reports'[i]
          IN \/ new = old
             \/ /\ old.status = "absent"
                /\ new.status = "pending" /\ new.retry_count = 0
             \/ /\ old.status = "pending"
                /\ new.status = "processing"
                /\ new.retry_count = old.retry_count
             \/ /\ old.status = "processing"
                /\ old.retry_count < MAX_RETRIES
                /\ new.status = "pending"
                /\ new.retry_count = old.retry_count + 1
             \/ /\ old.status = "processing"
                /\ old.retry_count = MAX_RETRIES
                /\ new.status = "failed"
                /\ new.retry_count = MAX_RETRIES]_vars
  /\ \A i \in Ids :
       (api[i] = "accepted")
         ~> ( /\ reports[i].status = "failed"
              /\ reports[i].retry_count = MAX_RETRIES
              /\ started[i] = MAX_RETRIES + 1
              /\ InDlq(JobMessage(i)) /\ ~InQueue(JobMessage(i)) )

\* C14 witness: a job that exhausted its retries
C14_Witness ==
  \E i \in Ids :
    /\ reports[i].status = "failed"
    /\ reports[i].retry_count = MAX_RETRIES
    /\ started[i] = MAX_RETRIES + 1
    /\ dlq = <<JobMessage(i)>>

\* C15: with the store answering, a job whose generateReport call succeeds
\* after k failed calls (k + 1 calls in all, 0 <= k <= MAX_RETRIES) ends
\* completed with retry_count k and its url, its message acked: in no queue
\* and in no handler's hands. A row becomes completed only from processing,
\* retry_count kept, so that for k = 0 it goes pending, processing, completed
C15_SuccessAfterKFailures ==
  /\ [](\A i \in Ids :
          reports[i].status = "completed"
          => ( /\ reports[i].retry_count = started[i] - 1
               /\ reports[i].retry_count <= MAX_RETRIES
               /\ reports[i].generated_url = ReportUrl(i)
               /\ ~InQueue(JobMessage(i)) /\ ~InDlq(JobMessage(i))
               /\ \A w \in Workers : msg[w] # JobMessage(i) ))
  /\ [][\A i \in Ids :
          LET old == reports[i]
              new == reports'[i]
          IN \/ new.status = old.status /\ new.retry_count = old.retry_count
             \/ /\ old.status = "absent"
                /\ new.status = "pending" /\ new.retry_count = 0
             \/ /\ old.status = "pending"
                /\ new.status = "processing"
                /\ new.retry_count = old.retry_count
             \/ /\ old.status = "processing"
                /\ new.status = "completed"
                /\ new.retry_count = old.retry_count
             \/ /\ old.status = "processing"
                /\ new.status = IF old.retry_count < MAX_RETRIES
                                  THEN "pending" ELSE "failed"
                /\ new.retry_count = IF old.retry_count < MAX_RETRIES
                                       THEN old.retry_count + 1
                                       ELSE old.retry_count]_vars
  /\ \A i \in Ids :
       (\E w \in Workers : pc[w] = "setCompleted" /\ msg[w] = JobMessage(i))
         ~> (reports[i].status = "completed")

\* C15 witness: completed on the third call, after two failures
C15_Witness ==
  \E i \in Ids :
    /\ reports[i].status = "completed"
    /\ started[i] = 3 /\ reports[i].retry_count = 2

\* the awaits of the catch block: the retry / failure accounting
Accounting == {"get2", "setPending", "setFailed"}

\* C16: when the query of an accounting step (getReport of line 196, the
\* UPDATE of line 202 or of line 214) fails, no row changes, and the nack on
\* the delivering channel puts the message back at the head of report_queue,
\* not in report_dlq, ready to be delivered again
C16_AccountingFailureRequeues ==
  [][\A w \in Workers :
        ( /\ pc[w] \in Accounting /\ pc'[w] # pc[w]
          /\ faults' = faults + 1 )
        => ( /\ reports' = reports
             /\ channel[w] = "open"
                  => ( /\ pc'[w] = "idle"
                       /\ queue' # <<>> /\ Head(queue') = msg[w]
                       /\ ~In(dlq', msg[w]) ) )]_vars

\* C16 witness: after the one failure, of a query of the catch block, the
\* row is as line 175 left it and the message waits in report_queue
C16_Witness ==
  \E i \in Ids :
    /\ faults = 1
    /\ \A w \in Workers : channel[w] # "lost" /\ msg[w] = NoMsg
    /\ api[i] = "accepted"
    /\ reports[i].status = "processing"
    /\ InQueue(JobMessage(i))

\* the one error generateReport throws, line 126 ('Simulated transient
\* processing error'); a failed query or a throwing channel call is not one
TransientError(cause) == cause = "work"

Naming(q, i) ==
  Cardinality({k \in 1..Len(q) : q[k].json /\ q[k].report_id = i})

\* the number of consumers that hold an unacknowledged message naming i
HeldNaming(i) ==
  Cardinality({w \in Workers : Unacked(w).json /\ Unacked(w).report_id = i})

\* C19: at the step that answers 202, the row of the returned id is the
\* pending row with retry_count 0 and report_queue holds one message naming
\* that id, report_dlq and the consumers none; the broker never holds a
\* second message naming the id, and none for an id that was not accepted
C19_AcceptedHasOneRowOneMessage ==
  /\ [][\A i \in Ids :
          (api[i] # "accepted" /\ api'[i] = "accepted")
          => ( /\ reports'[i] = [status |-> "pending", retry_count |-> 0,
                                 generated_url |-> NULL,
                                 failure_reason |-> NULL]
               /\ Naming(queue', i) = 1
               /\ Naming(dlq', i) = 0
               /\ HeldNaming(i)' = 0 )]_vars
  /\ [](\A i \in Ids :
          /\ Naming(queue, i) + Naming(dlq, i) + HeldNaming(i) <= 1
          /\ api[i] # "accepted"
               => Naming(queue, i) + Naming(dlq, i) + HeldNaming(i) = 0)

\* C19 witness: a submission just answered 202
C19_Witness ==
  \E i \in Ids :
    /\ api[i] = "accepted"
    /\ reports[i].status = "pending" /\ reports[i].retry_count = 0
    /\ started[i] = 0
    /\ Naming(queue, i) = 1

\* C20: a submission whose INSERT failed (answered 500 'Database error') has
\* no row, and no message naming its id is in the broker or in a handler's
\* hands
C20_InsertFailureLeavesNothing ==
  \A i \in Ids :
    api[i] = "db_error"
    => ( /\ reports[i] = NoRow
         /\ Naming(queue, i) = 0 /\ Naming(dlq, i) = 0
         /\ \A w \in Workers : msg[w].report_id # i )

\* C20 witness: a submission answered 500 'Database error'
C20_Witness == \E i \in Ids : api[i] = "db_error"

\* a message naming i is in report_queue, in report_dlq or in a handler's
\* hands
MessageFor(i) ==
  \/ Naming(queue, i) + Naming(dlq, i) > 0
  \/ \E w \in Workers : msg[w].json /\ msg[w].report_id = i

\* C21: when the publish of a written row's message fails (getChannel or
\* publish throws), nothing is published, the rollback DELETE is issued and
\* the caller is answered 500 'Failed to queue report generation'; when that
\* DELETE succeeds the row is gone, it stays gone, and no message naming the
\* id is anywhere
C21_PublishFailureRollsBack ==
  [][\A i \in Ids :
       /\ (api[i] = "inserted" /\ api'[i] # "inserted" /\ Naming(queue', i) = 0)
            => (api'[i] = "rollback" /\ reports[i] # NoRow /\ ~MessageFor(i)')
       /\ (api[i] = "rollback" /\ api'[i] # "rollback")
            => /\ api'[i] = "queue_error"
               /\ faults' = faults => reports'[i] = NoRow
               /\ ~MessageFor(i)'
       /\ (api[i] = "queue_error")
            => /\ api'[i] = "queue_error"
               /\ reports[i] = NoRow => reports'[i] = NoRow
               /\ ~MessageFor(i)']_vars

\* C21 witness: a submission answered 500 after its publish failed, its row
\* deleted
C21_Witness ==
  \E i \in Ids : api[i] = "queue_error" /\ reports[i] = NoRow /\ ~MessageFor(i)

\* the response h is the 400 that names report_type
RejectedForReportType(h) ==
  h.at = "answered" /\ h.code = 400 /\ h.message = ReportTypeMessage

\* C22 (as claimed): a request whose report_type is absent or not a string
\* is answered 400 with a message naming report_type, and no row is written
\* and no message published; a request whose report_type is a string is not
\* rejected for its report_type
C22_StringReportTypeNotRejected ==
  [][(http.op = "generate" /\ http.at = "received" /\ http' # http)
       => LET rt == http.body.report_type
          IN /\ typeof(rt) # "string"
                  => (RejectedForReportType(http') /\ UNCHANGED pipeline)
             /\ typeof(rt) = "string" => ~RejectedForReportType(http')]_vars

\* C22 (amended): a request whose report_type is absent, not a string or the
\* empty string is answered 400 with a message naming report_type, and no
\* row is written and no message published; a request whose report_type is
\* a non-empty string is not rejected for its report_type
C22_NonEmptyStringReportTypeNotRejected ==
  [][(http.op = "generate" /\ http.at = "received" /\ http' # http)
       => LET rt == http.body.report_type
          IN /\ (typeof(rt) # "string" \/ rt = "''")
                  => (RejectedForReportType(http') /\ UNCHANGED pipeline)
             /\ (typeof(rt) = "string" /\ rt # "''")
                  => ~RejectedForReportType(http')]_vars

\* C22 witness: a request with report_type "" answered 400, no row, no
\* message
C22_Witness ==
  /\ RejectedForReportType(http)
  /\ http.body.report_type = "''"
  /\ \A i \in RowIds : reports[i] = NoRow
  /\ queue = <<>>

\* the field is there with a value (JSON null counts as no value)
Present(v) == v \notin {"undefined", "null"}

\* an object or an array
StructuredObject(v) == v \in {"{}", "{k:1}", "[]"}

\* a report_type the validation of line 34 lets through
ValidReportType(v) == typeof(v) = "string" /\ Truthy(v)

\* C23: a request with a valid report_type is answered 400 exactly when
\* parameters is present and is not a structured object (a number, a string
\* or a boolean, whatever its value); when parameters is absent the handler
\* goes on and the message carries {} as parameters
C23_RejectedIffParametersNotAnObject ==
  [][(/\ http.op = "generate" /\ http.at = "received" /\ http' # http
      /\ ValidReportType(http.body.report_type))
       => LET p == http.body.parameters
          IN /\ (http'.at = "answered" /\ http'.code = 400)
                  <=> (Present(p) /\ ~StructuredObject(p))
             /\ p = "undefined"
                  => (http'.at = "insert" /\ http'.parameters = "{}")]_vars

\* the id is written as a version 4 uuid
UuidV4Format(id) == id.form \in {"v4", "V4"}

\* a step that answers a status request
StatusStep == http' # http /\ http'.op = "status"

\* the fields of row r under the names of the response, for the id asked
Projection(id, r) ==
  [report_id |-> id.key, status |-> r.status,
   generated_url |-> r.generated_url, failure_reason |-> r.failure_reason,
   retry_count |-> r.retry_count]

\* C24 (as claimed): a status request is answered 400 exactly when the id is
\* not written as a version 4 uuid; otherwise 404 exactly when no row has the
\* id; otherwise 200 with report_id, status, generated_url, failure_reason
\* and retry_count of the row
C24_StatusQueryOutcomes ==
  [][StatusStep
       => LET id == http'.id
              row == reports[id.key]
          IN /\ (http'.code = 400) <=> ~UuidV4Format(id)
             /\ UuidV4Format(id) => ((http'.code = 404) <=> row = NoRow)
             /\ (UuidV4Format(id) /\ row # NoRow)
                  => (http'.code = 200 /\ http'.report = Projection(id, row))
    ]_vars

\* C24 (amended): a status request is answered 400 exactly when the id is
\* not written as a version 4 uuid; otherwise 500 when the SELECT fails;
\* otherwise 404 exactly when no row has the id; otherwise 200 with
\* report_id, status, generated_url, failure_reason and retry_count of the
\* row
C24_StatusQueryOutcomesUnlessStoreFails ==
  [][StatusStep
       => LET id == http'.id
              row == reports[id.key]
          IN /\ (http'.code = 400) <=> ~UuidV4Format(id)
             /\ UuidV4Format(id) => http'.code \in {200, 404, 500}
             /\ (http'.code = 500) <=> (faults' # faults)
             /\ (UuidV4Format(id) /\ faults' = faults)
                  => /\ (http'.code = 404) <=> row = NoRow
                     /\ row # NoRow
                          => (/\ http'.code = 200
                              /\ http'.report = Projection(id, row))
    ]_vars

\* C24 witness: a status request answered 200 with the row of a job that
\* exhausted its retries
C24_Witness ==
  /\ http.op = "status" /\ http.code = 200
  /\ http.report.status = "failed"
  /\ http.report.retry_count = MAX_RETRIES
  /\ http.report = Projection(http.id, reports[http.id.key])

\* C25: a status request, at whatever point of ingestion and processing it
\* is made, answers with the row as the last finished INSERT / UPDATE /
\* DELETE left it (an UPDATE a handler has not issued yet does not show),
\* and changes neither the reports table nor the queues, the deliveries or
\* the handlers
C25_StatusQueryReadsLastWrite ==
  [][StatusStep
       => /\ UNCHANGED <<reports, api, queue, dlq, foreign, pc, channel, msg,
                         err, rc, decisions, discarded, started>>
          /\ http'.code = 200
               => /\ reports'[http'.id.key] # NoRow
                  /\ http'.report.status = reports'[http'.id.key].status
                  /\ http'.report.retry_count
                       = reports'[http'.id.key].retry_count
                  /\ http'.report.generated_url
                       = reports'[http'.id.key].generated_url
                  /\ http'.report.failure_reason
                       = reports'[http'.id.key].failure_reason
          /\ http'.code = 404 => reports'[http'.id.key] = NoRow]_vars

\* C25 witness: a status request made while a handler is in generateReport
\* on a retry, answered with the processing row
C25_Witness ==
  /\ http.op = "status" /\ http.code = 200
  /\ http.report.status = "processing"
  /\ http.report.retry_count > 0
  /\ \E w \in Workers : pc[w] = "generate" /\ msg[w].report_id = http.id.key

\* C26: a row is deleted only by the rollback DELETE the API issues after a
\* failed publish, and at that step no message naming the id is in
\* report_queue, in report_dlq or held by a handler; no step of
\* processMessage deletes a row
C26_OnlyRollbackDeletes ==
  [][\A i \in RowIds :
       (reports[i] # NoRow /\ reports'[i] = NoRow)
         => /\ i \in Ids
            /\ api[i] = "rollback" /\ api'[i] = "queue_error"
            /\ ~MessageFor(i) /\ ~MessageFor(i)'
            /\ UNCHANGED <<pc, msg, queue, dlq>>]_vars

\* C26 witness: the row of a submission whose publish failed is gone, while
\* a worker is consuming
C26_Witness ==
  \E i \in Ids :
    /\ api[i] = "queue_error" /\ reports[i] = NoRow
    /\ \E w \in Workers : pc[w] = "idle" /\ channel[w] = "open"

\* the handlers that are processing a delivery of the message naming i
Processing(i) ==
  {w \in Workers : pc[w] \in Running /\ msg[w].json /\ msg[w].report_id = i}

\* C27: at no time are two deliveries of one job's message being processed;
\* while a handler is processing a delivery of the message, the message is
\* not in report_queue waiting to be delivered again
C27_NoConcurrentDeliveries ==
  \A i \in Ids :
    /\ Cardinality(Processing(i)) <= 1
    /\ Processing(i) # {} => Naming(queue, i) = 0

\* worker w has a consumer on report_queue
Consuming(w) == channel[w] = "open" /\ pc[w] \in {"idle"} \cup Running

\* C28: after a worker's connection is lost the worker reconnects,
\* declares the topology again and consumes from report_queue again, so
\* that what was queued or unacknowledged at the loss is delivered to it
C28_LostWorkerResumesConsuming ==
  \A w \in Workers : (channel[w] = "lost") ~> Consuming(w)

\* C29: a message enters report_dlq only by the nack without requeue of
\* line 221, on the channel that delivered it, made by a handler that has
\* just written the message's row as failed, the row's retry_count being
\* MAX_RETRIES; nothing else adds to report_dlq, and nothing leaves it
C29_DeadLetteredOnlyAfterExhaustion ==
  [][dlq' # dlq
       => \E w \in Workers :
            /\ pc[w] = "setFailed" /\ channel[w] = "open"
            /\ dlq' = Append(dlq, msg[w])
            /\ reports'[msg[w].report_id].status = "failed"
            /\ reports'[msg[w].report_id].retry_count = MAX_RETRIES]_vars

\* the workers that hold an unacknowledged delivery of the message naming i
\* and are working on it
Working(i) ==
  {w \in Workers : /\ channel[w] = "open" /\ pc[w] \in Running
                   /\ msg[w].json /\ msg[w].report_id = i}

\* no worker's connection has closed
NoConnectionLost ==
  \A w \in Workers : channel[w] \in {"none", "open"} /\ pc[w] # "crashed"

C31_CompletedHoldsOwnUrl ==
  [][/\ \A i \in Ids :
          reports'[i].status = "completed"
            => reports'[i].generated_url
                 = <<"http://reports.example.com/", i, ".pdf">>
     /\ \A w \in Workers :
          (pc[w] = "generate" /\ pc'[w] # "generate")
            => \/ pc'[w] = "setCompleted" /\ err'[w] = "none"
               \/ /\ pc'[w] = "get2"
                  /\ ErrorMessage(err'[w])
                       = "Simulated transient processing error"]_vars

\* C31 witness: a completed row with its URL, written on a retry
C31_Witness ==
  \E i \in Ids :
    /\ reports[i].status = "completed"
    /\ reports[i].retry_count > 0
    /\ reports[i].generated_url = <<"http://reports.example.com/", i, ".pdf">>

\* C32: a handler issues its ack or nack only after its write has
\* finished: at the step a handler that got as far as its writes makes its
\* decision and returns, the row is completed with its URL (before the ack),
\* pending with the retry_count it read plus one (before the requeueing
\* nack), or failed (before the nack without requeue), unless the write of
\* the catch block failed and nothing was written
C32_WriteBeforeDecision ==
  [][\A w \in Workers :
       (pc[w] \in {"setCompleted", "setPending", "setFailed"}
          /\ pc'[w] \notin Running)
         => LET row == reports'[msg[w].report_id]
            IN /\ pc[w] = "setCompleted"
                    => /\ row.status = "completed"
                       /\ row.generated_url = ReportUrl(msg[w].report_id)
                       /\ faults' = faults
               /\ (pc[w] = "setPending" /\ faults' = faults)
                    => /\ row.status = "pending"
                       /\ row.retry_count = rc[w] + 1
               /\ (pc[w] = "setFailed" /\ faults' = faults)
                    => row.status = "failed"
               /\ faults' # faults => reports' = reports]_vars

\* C32 witness: a job acked after its completed row was written
C32_Witness ==
  \E i \in Ids :
    /\ api[i] = "accepted"
    /\ reports[i].status = "completed"
    /\ ~MessageFor(i)
    /\ \A w \in Workers : pc[w] \in {"idle", "stopped"}

\* C33: every accepted job whose row is pending or processing has a message
\* naming it in report_queue or unacknowledged at a consumer
C33_UnfinishedJobHasMessage ==
  \A i \in Ids :
    (api[i] = "accepted" /\ reports[i].status \in {"pending", "processing"})
      => Naming(queue, i) + HeldNaming(i) >= 1

\* C34: retry_count of a row grows only by the write of a handler that
\* caught a failure of generateReport, and a row becomes failed only by the
\* write of such a handler; a failed job has had generateReport called, and
\* fail, MAX_RETRIES + 1 times
C34_OnlyWorkFailureCounts ==
  /\ [][\A i \in Ids :
          (\/ reports'[i].retry_count > reports[i].retry_count
           \/ reports[i].status # "failed" /\ reports'[i].status = "failed")
            => \E w \in Workers :
                 /\ pc[w] \in {"setPending", "setFailed"}
                 /\ msg[w].report_id = i
                 /\ err[w] = "work"]_vars
  /\ [](\A i \in Ids :
          reports[i].status = "failed" => started[i] >= MAX_RETRIES + 1)

\* C35: every ack or nack that goes out for a delivery goes out on the
\* channel that delivered it: a handler that makes its decision and returns
\* does so with the module-level channel still being the delivering channel,
\* also after a close of the connection
C35_DecisionOnDeliveringChannel ==
  [][\A w \in Workers :
       (pc[w] \in Running /\ pc'[w] = "idle") => channel[w] = "open"]_vars

\* C36: a call of connectRabbitMQ or initializeRabbitMQ makes at most
\* retries attempts; once an attempt succeeded the call has returned and
\* makes no further attempt; it rejects only when the attempt numbered
\* retries has failed, and makes no attempt after that; every call ends
C36_ConnectAttemptsBounded ==
  /\ [](connecting.fn # "none"
          => /\ connecting.attempt \in 1..connecting.retries
             /\ connecting.result = "rejected"
                  => connecting.attempt = connecting.retries)
  /\ [][connecting.result \in {"resolved", "rejected"}
          => connecting' = connecting]_vars
  /\ [][connecting.result = "running"
          => \/ connecting'.result = "resolved"
                  /\ connecting'.attempt = connecting.attempt
             \/ connecting'.result = "running"
                  /\ connecting'.attempt = connecting.attempt + 1
             \/ connecting'.result = "rejected"
                  /\ connecting'.attempt = connecting.attempt]_vars
  /\ (connecting.result = "running")
       ~> (connecting.result \in {"resolved", "rejected"})

\* C36 witness: connectRabbitMQ called with its default has rejected after
\* its fifth attempt
C36_Witness ==
  /\ connecting.fn = "connectRabbitMQ"
  /\ connecting.retries = DefaultApiRetries
  /\ connecting.attempt = DefaultApiRetries
  /\ connecting.result = "rejected"

\* C37: once a MySQL connection was lost and createConnection has made a
\* new one, the connection the API and the worker issue their queries on
\* (what require('../config/db') gave them) is the new one, not a lost one
C37_QueriesUseRecreatedConnection ==
  db.lost # {} => (db.exported = db.module /\ db.exported \notin db.lost)

====
